---------------------------- MODULE Spec2Model ----------------------------
(***************************************************************************)
(* A state-machine model of src/index.js, the enhancement script of the    *)
(* portfolio page: the lazy image loader, the debounced scroll-to-top      *)
(* toggle, the navigation highlighter, the masonry-grid filter clicks, the *)
(* bootstrap of the optional widgets and the mobile header toggle.         *)
(*                                                                         *)
(* The document (its images, sections, anchors, grids) and the browser     *)
(* (intersection notifications, scroll events, timers, clicks) are the     *)
(* environment; every handler of the script is one action.                 *)
(*                                                                         *)
(* JavaScript values are modelled as strings.  NoAttr stands for a content *)
(* attribute that is not on the element, Undefined for the JS value        *)
(* undefined; both differ from every attribute value, also from "".        *)
(***************************************************************************)
EXTENDS Integers, Sequences, FiniteSets

VARIABLES
  phase,        \* "parsing" | "ready" (DOMContentLoaded ran) | "loaded" (load ran)
  \* ---- lazy image loader
  hasIO,        \* 'IntersectionObserver' in window
  markup,       \* the img[data-src] elements as parsed, in DOM order
  img,          \* their current attributes: src, srcset, dataSrc, dataSrcset
  observed,     \* the observer's observation targets
  lastInt,      \* per image, {isIntersecting last queued by the browser}, {} if none
  queue,        \* the observer's queued entries, not yet delivered
  srcWrites,    \* per image, the values assigned to img.src, in order
  \* ---- scroll-to-top toggle
  scrollY,      \* window.pageYOffset / window.scrollY
  hasButton,    \* document.getElementById('scroll-top') is an element
  btnActive,    \* the control carries the class 'active'
  timeout,      \* debounce's timeout: "pending" while a timer is set, else "none"
  quiet,        \* ms since handleScroll was last called, capped at Delay
  bodyRuns,     \* number of runs of the debounced handler body
  firedSinceCall, \* the body has run since handleScroll was last called
  lastRead,     \* scrollTop as read by the latest run of the body
  pendingCalls, \* the browser's active timers that will run the handler body
  burst,        \* calls of handleScroll less than Delay ms apart, the latest one last
  \* ---- navigation highlighter
  sections,     \* the section elements: id, offsetTop, offsetHeight
  anchors,      \* the href of each '#navmenu a'
  navActive,    \* per anchor, whether it carries the class 'active'
  \* ---- masonry grids
  hasIsotope,   \* typeof Isotope !== 'undefined'
  grids,        \* the .isotope-layout elements with their preceding sibling
  filterActive, \* per grid, the controls of its bar carrying 'filter-active'
  isoInst,      \* per grid, the options of its Isotope instance, or NoInstance
  clicked,      \* <<g, c>>: the latest click hit control c of grid g's bar; <<>> if none
  lastClick,    \* per grid, the control of its bar clicked last, 0 if none
  clickHandlers, \* the handlers that marked and arranged for the latest click
  \* ---- optional widgets, header toggle, hash scroll
  globals,      \* the optional third-party globals that are defined (Isotope: hasIsotope)
  typedEl,      \* data-typed-items of the .typed element, NoAttr, or NoElement
  swipers,      \* per .init-swiper element, the text of its .swiper-config child
  hash,         \* window.location.hash
  hasToggle,    \* document.querySelector('.header-toggle') is an element
  hasHeader,    \* document.getElementById('header') is an element
  preloader,    \* the #preloader element: "none", "shown" or "removed"
  headerClass,  \* of the classes header-show (header), bi-list and bi-x (toggle), those set
  docClass,     \* the classes the script has added to the document element
  inited,       \* the globals whose widget has been initialised
  swiperInst,   \* the .init-swiper elements that have their Swiper instance
  fonts,        \* the font-load promise: "none", "pending", "loaded" or "failed"
  scrollTarget, \* the top handed to window.scrollTo, NoScroll if it was not called
  console,      \* the console entries written by the script, in order
  raised,       \* the exceptions that left a handler uncaught, by handler and line
  wired,        \* the listeners the script has added to body, toggle and window
  lastEvent     \* <<kind, input, parity, again>> of the event delivered last

lazyVars   == <<hasIO, markup, img, observed, lastInt, queue, srcWrites>>
scrollVars == <<scrollY, hasButton, btnActive, timeout, quiet, bodyRuns,
                firedSinceCall, lastRead, pendingCalls, burst>>
navVars    == <<sections, anchors, navActive>>
gridVars   == <<hasIsotope, grids, filterActive, isoInst, clicked, lastClick,
                clickHandlers>>
pageVars   == <<globals, typedEl, swipers, hash, hasToggle, hasHeader>>
bootVars   == <<inited, swiperInst, fonts, scrollTarget, docClass, preloader>>
otherVars  == <<pageVars, bootVars, headerClass, console, raised, wired, lastEvent>>
vars       == <<phase, lazyVars, scrollVars, navVars, gridVars, pageVars, bootVars,
                headerClass, console, raised, wired, lastEvent>>

(***************************************************************************)
(* Bounds of the model.                                                    *)
(***************************************************************************)
NumImages == 2      \* img[data-src] elements of the page
MaxQueue  == 3      \* entries the observer may hold before they are delivered
MaxRuns   == 2      \* runs of the debounced handler body that are followed
NumGrids  == 2      \* .isotope-layout elements of the page
MaxBurst  == 3      \* calls of handleScroll that are counted in one burst

(***************************************************************************)
(* JavaScript values.                                                      *)
(***************************************************************************)
NoAttr    == "(no attribute)"
Undefined == "(undefined)"

\* element.dataset.x / element.getAttribute-like read of a data attribute
Dataset(attr) == IF attr = NoAttr THEN Undefined ELSE attr

\* the truthiness test of `if (value)` on a string or undefined
Truthy(v) == v \notin {Undefined, ""}

\* the conversion an IDL string attribute setter applies to what is assigned
StringOf(v) == IF v = Undefined THEN "undefined" ELSE v

\* a reflected IDL string attribute: "" when the content attribute is missing
Reflect(attr) == IF attr = NoAttr THEN "" ELSE attr

\* The event delivered last is kept as <<kind, input, parity, again>>: the
\* input as a sequence of numbers, a parity that flips with every delivery,
\* and whether the event before it was of the same kind with the same input.
NoEvent == << "none", <<>>, 0, FALSE >>

Event(kind, input) ==
  lastEvent' = << kind, input, 1 - lastEvent[3],
                  lastEvent[1] = kind /\ lastEvent[2] = input >>

(***************************************************************************)
(* 1. Lazy loading images                                                  *)
(***************************************************************************)
Images == 1..Len(markup)

\* The images a page may carry: without and with a deferred source-set, with
\* an empty one, and with an empty deferred source.
ImgKinds ==
  { [src |-> NoAttr,            srcset |-> NoAttr,
     dataSrc |-> "a.jpg",       dataSrcset |-> NoAttr],
    [src |-> "placeholder.gif", srcset |-> "old.jpg 1x",
     dataSrc |-> "b.jpg",       dataSrcset |-> "b-2x.jpg 2x"],
    [src |-> "placeholder.gif", srcset |-> "old.jpg 1x",
     dataSrc |-> "a.jpg",       dataSrcset |-> ""],
    [src |-> "placeholder.gif", srcset |-> NoAttr,
     dataSrc |-> "",            dataSrcset |-> NoAttr] }

\* index.js 19-24 and 36-41: the attribute swap done on one image
SwapIn(r) ==
  [src        |-> StringOf(Dataset(r.dataSrc)),
   srcset     |-> IF Truthy(Dataset(r.dataSrcset))
                  THEN StringOf(Dataset(r.dataSrcset)) ELSE r.srcset,
   dataSrc    |-> NoAttr,
   dataSrcset |-> NoAttr]

\* Mutant of OnEntry: the image stays observed.
OnEntryNoUnobserve(st, e) ==
  IF e.isIntersecting
  THEN [img       |-> [st.img EXCEPT ![e.target] = SwapIn(@)],
        observed  |-> st.observed,
        srcWrites |-> [st.srcWrites EXCEPT
                         ![e.target] = Append(@, StringOf(Dataset(st.img[e.target].dataSrc)))]]
  ELSE st

\* index.js 16-27: the body of entries.forEach for one entry, on the state
\* st = [img, observed, srcWrites]
OnEntry(st, e) ==
  IF e.isIntersecting
  THEN [img       |-> [st.img EXCEPT ![e.target] = SwapIn(@)],
        observed  |-> st.observed \ {e.target},
        srcWrites |-> [st.srcWrites EXCEPT
                         ![e.target] = Append(@, StringOf(Dataset(st.img[e.target].dataSrc)))]]
  ELSE st

\* index.js 16: entries.forEach, in the order of the entries
RECURSIVE ForEachEntry(_, _)
ForEachEntry(entries, st) ==
  IF entries = <<>> THEN st
  ELSE ForEachEntry(Tail(entries), OnEntry(st, Head(entries)))

\* index.js 15-28: the IntersectionObserver callback, invoked by the browser
\* with the entries queued since the last invocation.
IntersectionCallback ==
  /\ queue # <<>>
  /\ LET st == ForEachEntry(queue, [img |-> img, observed |-> observed,
                                   srcWrites |-> srcWrites])
     IN /\ img' = st.img
        /\ observed' = st.observed
        /\ srcWrites' = st.srcWrites
  /\ queue' = <<>>
  /\ UNCHANGED <<phase, hasIO, markup, lastInt, scrollVars, navVars, gridVars,
                 otherVars>>

\* The browser: on an update of the rendering it queues an entry for an
\* observed target whose isIntersecting differs from the value last queued
\* for it (the first computation after observe() always queues one).  The
\* callback runs in a later task, so several updates may queue entries for
\* the same target before one delivery.
QueueEntry(i, b) ==
  /\ i \in observed
  /\ b \notin lastInt[i]
  /\ Len(queue) < MaxQueue
  /\ queue' = Append(queue, [target |-> i, isIntersecting |-> b])
  /\ lastInt' = [lastInt EXCEPT ![i] = {b}]
  /\ UNCHANGED <<phase, hasIO, markup, img, observed, srcWrites,
                 scrollVars, navVars, gridVars, otherVars>>

\* Mutant of lazyLoadImages: the fallback branch does nothing.
lazyLoadImagesNoFallback ==
  IF hasIO
  THEN [img |-> img, observed |-> Images, srcWrites |-> srcWrites]
  ELSE [img |-> img, observed |-> {}, srcWrites |-> srcWrites]

\* index.js 11-44: lazyLoadImages, as the new [img, observed, srcWrites]
lazyLoadImages ==
  IF hasIO
  THEN [img |-> img, observed |-> Images, srcWrites |-> srcWrites]
  ELSE [img       |-> [i \in Images |-> SwapIn(img[i])],
        observed  |-> {},
        srcWrites |-> [i \in Images |->
                         Append(srcWrites[i], StringOf(Dataset(img[i].dataSrc)))]]

(***************************************************************************)
(* 6. Debounced scroll handler                                             *)
(***************************************************************************)
Delay     == 100    \* index.js 140: debounce(..., 100)
Threshold == 100    \* index.js 134: scrollTop > 100

\* Time advances in steps of half the debounce delay, so that an event can
\* fall strictly inside a quiet interval.
Quantum == Delay \div 2

NotRead == -1       \* lastRead before the handler body has run

\* The offsets the page may be scrolled to.
ScrollOffsets == {0, 50, 100, 150, 350}

\* index.js 131: window.pageYOffset || document.documentElement.scrollTop;
\* the two are the same quantity, the second is read when the first is 0.
ScrollTop == IF scrollY # 0 THEN scrollY ELSE scrollY

\* Mutant of ButtonClass: the comparison is >= instead of >.
ButtonClassGeq(scrollTop) ==
  IF hasButton THEN scrollTop >= Threshold ELSE btnActive

\* index.js 132-139: the class of the scroll-to-top control after the body
ButtonClass(scrollTop) ==
  IF hasButton THEN scrollTop > Threshold ELSE btnActive

\* The calls of handleScroll in the burst that a call made now belongs to: a
\* call that comes Delay ms or more after the previous one starts a burst.
NextBurst ==
  IF quiet >= Delay THEN 1
  ELSE IF burst < MaxBurst THEN burst + 1 ELSE MaxBurst

\* Mutant of debounce: the call does not restart the quiet interval of a
\* timer that is already pending.
debounceNoRestart ==
  /\ pendingCalls' = (IF timeout = "pending" THEN pendingCalls - 1 ELSE pendingCalls) + 1
  /\ timeout' = "pending"
  /\ quiet' = IF timeout = "pending" THEN quiet ELSE 0
  /\ firedSinceCall' = FALSE
  /\ burst' = NextBurst

\* Mutant of debounce: the pending timer is not cleared.
debounceNoClear ==
  /\ pendingCalls' = pendingCalls + 1
  /\ timeout' = "pending"
  /\ quiet' = 0
  /\ firedSinceCall' = FALSE
  /\ burst' = NextBurst

\* index.js 119-126: a call of the function debounce returns:
\* clearTimeout(timeout) takes the timer the closure holds, if it is still
\* active, out of the browser's timers; timeout = setTimeout(..., delay) adds
\* one and starts its delay
debounce ==
  /\ pendingCalls' = (IF timeout = "pending" THEN pendingCalls - 1 ELSE pendingCalls) + 1
  /\ timeout' = "pending"
  /\ quiet' = 0
  /\ firedSinceCall' = FALSE
  /\ burst' = NextBurst

\* Mutant of TimerDue: the callback may run before the delay has passed.
TimerDueAtOnce == timeout = "pending"

\* setTimeout's contract: the callback runs no earlier than delay ms after
\* the call (it may run later), unless clearTimeout came first.
TimerDue == timeout = "pending" /\ quiet >= Delay

\* index.js 128-140: the timer fires and runs the body handed to debounce
\* (the runs are counted up to MaxRuns)
TimerFire ==
  /\ TimerDue
  /\ bodyRuns < MaxRuns
  /\ timeout' = "none"
  /\ pendingCalls' = pendingCalls - 1
  /\ lastRead' = ScrollTop
  /\ btnActive' = ButtonClass(ScrollTop)
  /\ bodyRuns' = bodyRuns + 1
  /\ firedSinceCall' = TRUE
  /\ UNCHANGED <<phase, lazyVars, scrollY, hasButton, quiet, burst, navVars,
                 gridVars, otherVars>>

\* Time passes.  Before the load handler no timer has been set, and time is
\* followed from then on.
Tick ==
  /\ phase = "loaded"
  /\ quiet < Delay
  /\ quiet' = IF quiet + Quantum > Delay THEN Delay ELSE quiet + Quantum
  /\ UNCHANGED <<phase, lazyVars, scrollY, hasButton, btnActive, timeout,
                 bodyRuns, firedSinceCall, lastRead, pendingCalls, burst,
                 navVars, gridVars, otherVars>>

(***************************************************************************)
(* Navigation highlighter.  A JS string is modelled as the sequence of its *)
(* first character and the rest ("#about" is <<"#", "about">>, "#" is      *)
(* <<"#">>, "" is <<>>), a section id as the sequence <<id>> or <<>>.     *)
(***************************************************************************)
Lookahead == 100    \* index.js 327: section.offsetTop - 100

\* null: a value that no string equals
Null == <<"(null)", "(null)">>

\* String.prototype.substring(1)
Substring1(s) == IF s = <<>> THEN <<>> ELSE Tail(s)

\* The section layouts a page may have: the three stacked sections, two
\* overlapping sections, a section without an id, a lone section further down.
Layouts ==
  { << [id |-> <<"hero">>,  offsetTop |-> 0,   offsetHeight |-> 300],
       [id |-> <<"about">>, offsetTop |-> 300, offsetHeight |-> 500],
       [id |-> <<"contact">>, offsetTop |-> 800, offsetHeight |-> 400] >>,
    << [id |-> <<"hero">>,  offsetTop |-> 0,   offsetHeight |-> 500],
       [id |-> <<"about">>, offsetTop |-> 300, offsetHeight |-> 500] >>,
    << [id |-> <<>>,        offsetTop |-> 0,   offsetHeight |-> 300],
       [id |-> <<"about">>, offsetTop |-> 300, offsetHeight |-> 500] >>,
    << [id |-> <<"about">>, offsetTop |-> 300, offsetHeight |-> 200] >> }

\* The '#navmenu a' lists a page may have.
AnchorLists ==
  { << <<"#", "hero">>, <<"#", "about">>, <<"#", "contact">> >>,
    << <<"#", "about">>, <<"#", "about">> >>,
    << <<"#">>, <<"#", "about">> >>,
    << <<"#", "hero">>, <<"i", "ndex.html#about">> >> }

\* Mutant of ScanSections: the first containing section wins.
RECURSIVE ScanSectionsFirst(_, _, _)
ScanSectionsFirst(secs, y, cur) ==
  IF secs = <<>> THEN cur
  ELSE LET section       == Head(secs)
           sectionTop    == section.offsetTop - Lookahead
           sectionBottom == sectionTop + section.offsetHeight
       IN ScanSectionsFirst(Tail(secs), y,
            IF y >= sectionTop /\ y < sectionBottom /\ cur = Null
            THEN section.id ELSE cur)

\* index.js 325-332: sections.forEach, starting from currentActive = cur
RECURSIVE ScanSections(_, _, _)
ScanSections(secs, y, cur) ==
  IF secs = <<>> THEN cur
  ELSE LET section       == Head(secs)
           sectionTop    == section.offsetTop - Lookahead
           sectionBottom == sectionTop + section.offsetHeight
       IN ScanSections(Tail(secs), y,
            IF y >= sectionTop /\ y < sectionBottom
            THEN section.id ELSE cur)

\* Mutant of activateNavmenuLink: the class is not removed from the others.
activateNavmenuLinkNoClear(y) ==
  [k \in DOMAIN anchors |->
     navActive[k] \/ Substring1(anchors[k]) = ScanSections(sections, y, Null)]

\* index.js 336: link.getAttribute('href') is null for an anchor without
\* href, and null.substring raises a TypeError: the first such link, 0 if none
NoHrefLink ==
  LET N == { k \in DOMAIN anchors : anchors[k] = Null }
  IN IF N = {} THEN 0 ELSE CHOOSE k \in N : \A l \in N : k <= l

\* index.js 324-340: activateNavmenuLink with window.scrollY = y, as the new
\* 'active' class of every link.  At a link without href the class has been
\* removed (335) when 336 raises, and the links after it are not visited.
activateNavmenuLink(y) ==
  [k \in DOMAIN anchors |->
     IF NoHrefLink # 0 /\ k >= NoHrefLink
     THEN (IF k = NoHrefLink THEN FALSE ELSE navActive[k])
     ELSE Substring1(anchors[k]) = ScanSections(sections, y, Null)]

\* Mutant of NavListening: the highlighter is not run on scroll events.
NavListeningNever == FALSE

\* index.js 342: the scroll listener is added by the DOMContentLoaded handler
NavListening == "scroll:activateNavmenuLink" \in wired

\* The browser dispatches a scroll event at offset y to the listeners on
\* window, in the order they were added: activateNavmenuLink (342), then
\* handleScroll (358).
ScrollEvent(y) ==
  /\ scrollY' = y
  /\ Event("scroll", <<y>>)
  /\ navActive' = IF NavListening THEN activateNavmenuLink(y) ELSE navActive
  /\ raised' = IF NavListening /\ NoHrefLink # 0
               THEN raised \cup { <<"scroll", 336>> } ELSE raised
  /\ IF phase = "loaded"
     THEN debounce
     ELSE UNCHANGED <<timeout, quiet, firedSinceCall, pendingCalls, burst>>
  /\ UNCHANGED <<phase, lazyVars, hasButton, btnActive, bodyRuns, lastRead,
                 sections, anchors, gridVars, pageVars, bootVars, headerClass,
                 console, wired>>

(***************************************************************************)
(* Masonry grids and their filter bars.  Grids are numbered in DOM order;  *)
(* every filter bar holds the controls FilterControls, every grid the      *)
(* items GridItems.                                                        *)
(***************************************************************************)
\* the data-filter attribute of the li elements of a filter bar
FilterControls == << "*", ".filter-app", ".filter-web" >>

\* the isotope items of a grid, each as the class selectors it matches
GridItems == << {".filter-app"}, {".filter-web"}, {".filter-app", ".filter-web"} >>

\* The grids a page may carry: bar is the class list of the grid's
\* previousElementSibling, active the controls marked in the markup.
GridKinds ==
  { [bar |-> {"isotope-filters"}, active |-> {1},
     layout |-> NoAttr, defaultFilter |-> NoAttr, sort |-> NoAttr],
    [bar |-> {"portfolio-filters", "isotope-filters"}, active |-> {1},
     layout |-> "masonry", defaultFilter |-> "*", sort |-> "original-order"],
    [bar |-> {"portfolio-filters"}, active |-> {2},
     layout |-> "fitRows", defaultFilter |-> ".filter-app", sort |-> "name"] }

\* Isotope.data(element) of an element that has no instance
NoInstance ==
  [itemSelector |-> NoAttr, layoutMode |-> NoAttr, filter |-> NoAttr, sortBy |-> NoAttr]

\* element.getAttribute(name) || fallback
AttrOr(attr, fallback) == IF attr \in {NoAttr, ""} THEN fallback ELSE attr

\* index.js 268-277: new Isotope(isotopeItem, {...})
NewIsotope(grid) ==
  [itemSelector |-> ".isotope-item",
   layoutMode   |-> AttrOr(grid.layout, "masonry"),
   filter       |-> AttrOr(grid.defaultFilter, "*"),
   sortBy       |-> AttrOr(grid.sort, "original-order")]

\* iso.arrange({filter: value}): the option is replaced, the layout redone
Arrange(inst, value) == [inst EXCEPT !.filter = value]

\* The items a grid shows: those matching the filter option of its instance
\* (Isotope reads a missing filter as '*'); all of them without an instance.
Visible(g) ==
  LET f == IF isoInst[g] = NoInstance THEN "*"
           ELSE IF Truthy(isoInst[g].filter) THEN isoInst[g].filter ELSE "*"
  IN { k \in DOMAIN GridItems : f = "*" \/ f \in GridItems[k] }

\* index.js 280-282: the grid's own click listener is attached to the
\* previous sibling when that matches '.isotope-filters'
OwnListener(g) ==
  /\ phase # "parsing" /\ hasIsotope /\ "isotope-filters" \in grids[g].bar
  /\ isoInst[g] # NoInstance

\* index.js 282-293: the grid's own listener, for a click on control c of the
\* bar of grid g, on st = [active, inst]
OwnHandler(st, g, c) ==
  [active |-> [st.active EXCEPT ![g] = {c}],
   inst   |-> [st.inst EXCEPT ![g] = Arrange(@, Dataset(FilterControls[c]))]]

\* index.js 177-197: the listener delegated to document.body, for the same
\* click: it handles '.portfolio-filters li', clears the mark in every such
\* bar of the document and arranges the first .isotope-layout of the document
DelegatedHandler(st, g, c) ==
  IF "portfolio-filters" \in grids[g].bar
  THEN [active |-> [h \in DOMAIN grids |->
                      IF "portfolio-filters" \in grids[h].bar
                      THEN (IF h = g THEN {c} ELSE {})
                      ELSE st.active[h]],
        inst   |-> IF hasIsotope /\ st.inst[1] # NoInstance
                   THEN [st.inst EXCEPT ![1] = Arrange(@, Dataset(FilterControls[c]))]
                   ELSE st.inst]
  ELSE st

\* index.js 179 and 281-284: the handlers whose condition a click on a
\* control of the bar of grid g meets; each changes the marks and arranges
\* a grid that has an instance
ClickHandlers(g) ==
  (IF OwnListener(g) THEN {"own"} ELSE {})
    \cup (IF phase # "parsing" /\ "portfolio-filters" \in grids[g].bar
          THEN {"delegated"} ELSE {})

\* A click on control c of the bar that precedes grid g.  The event bubbles
\* from the li through the bar (the grid's own listener) up to body (the
\* delegated listener).  Before the DOMContentLoaded handler no listener is
\* there and a click changes nothing, so clicks are followed from then on.
FilterClick(g, c) ==
  /\ phase # "parsing"
  /\ clicked' = <<g, c>>
  /\ lastClick' = [lastClick EXCEPT ![g] = c]
  /\ Event("click", <<g, c>>)
  /\ LET st0 == [active |-> filterActive, inst |-> isoInst]
         st1 == IF OwnListener(g) THEN OwnHandler(st0, g, c) ELSE st0
         st2 == IF phase # "parsing" THEN DelegatedHandler(st1, g, c) ELSE st1
     IN /\ filterActive' = st2.active
        /\ isoInst' = st2.inst
  /\ clickHandlers' = ClickHandlers(g)
  /\ UNCHANGED <<phase, lazyVars, scrollVars, navVars, hasIsotope, grids,
                 pageVars, bootVars, headerClass, console, raised, wired>>

(***************************************************************************)
(* Optional widgets, hash scroll and header toggle                         *)
(***************************************************************************)
\* the globals probed with typeof besides Isotope
OptionalGlobals ==
  {"FontFaceObserver", "AOS", "Typed", "PureCounter", "GLightbox", "Swiper"}

\* typeof G !== 'undefined'
Defined(G) == IF G = "Isotope" THEN hasIsotope ELSE G \in globals

NoElement == "(no element)"     \* querySelector found nothing
NoScroll  == -1                 \* window.scrollTo has not been called

\* The .typed element a page may carry: none, one with its items, one
\* without the data-typed-items attribute.
TypedKinds == { NoElement, "Designer,Developer", NoAttr }

\* The texts JSON.parse accepts, of those a .swiper-config child may hold.
JsonTexts == { "{}" }

\* The .init-swiper elements a page may carry, each as the text of its
\* .swiper-config child, NoElement without that child.
SwiperKinds == { <<>>, << "{}" >>, << "{}", NoElement >>, << "" >> }

\* The names that are not identifiers: '#' followed by one is no selector.
NotIdent == { "1" }

\* The location hashes: none, the id of a section, an id no element has, and
\* one that is not a selector.  "#about" is <<"#", "about">>.
HashKinds == { <<>>, <<"#", "about">>, <<"#", "nowhere">>, <<"#", "1">> }

\* index.js 260: querySelector('.swiper-config').innerHTML raises a TypeError
\* without the child, JSON.parse a SyntaxError on a text it does not accept:
\* the first .init-swiper element at which 260 raises, 0 if none
BadSwiper ==
  LET B == { k \in DOMAIN swipers : swipers[k] \notin JsonTexts }
  IN IF B = {} THEN 0 ELSE CHOOSE k \in B : \A l \in B : k <= l

\* index.js 204-345: the line at which the DOMContentLoaded handler raises,
\* in the order the statements run; 0 if it runs to its end.
\*   234: typed_strings.split on the null of a missing data-typed-items
\*   260: the .swiper-config child or its text
\*   300: document.querySelector on a hash that is not a selector
\*   336: inside the call of activateNavmenuLink at 343
RaisesAt ==
  IF Defined("Typed") /\ typedEl = NoAttr THEN 234
  ELSE IF Defined("Swiper") /\ BadSwiper # 0 THEN 260
  ELSE IF hash # <<>> /\ hash[2] \in NotIdent THEN 300
  ELSE IF NoHrefLink # 0 THEN 336
  ELSE 0

\* Mutant of optimizeFontLoading: nothing is written without the global.
optimizeFontLoadingSilent(con) ==
  [fonts   |-> IF Defined("FontFaceObserver") THEN "pending" ELSE fonts,
   console |-> con]

\* index.js 79-101: optimizeFontLoading on the console con, as the new
\* [fonts, console]
optimizeFontLoading(con) ==
  IF Defined("FontFaceObserver")
  THEN [fonts |-> "pending", console |-> con]
  ELSE [fonts   |-> fonts,
        console |-> Append(con,
                      <<"warn", "FontFaceObserver not found. Font optimization skipped.">>)]

\* index.js 91-94: the promise of the three font loads is fulfilled
FontsLoaded ==
  /\ fonts = "pending"
  /\ fonts' = "loaded"
  /\ docClass' = docClass \cup {"fonts-loaded"}
  /\ console' = Append(console, <<"log", "All fonts loaded">>)
  /\ UNCHANGED <<phase, lazyVars, scrollVars, navVars, gridVars, pageVars,
                 inited, swiperInst, scrollTarget, preloader, headerClass,
                 raised, wired, lastEvent>>

\* index.js 95-97: one of the font loads is rejected
FontsFailed ==
  /\ fonts = "pending"
  /\ fonts' = "failed"
  /\ console' = Append(console, <<"error", "Error loading fonts:">>)
  /\ UNCHANGED <<phase, lazyVars, scrollVars, navVars, gridVars, pageVars,
                 inited, swiperInst, scrollTarget, docClass, preloader,
                 headerClass, raised, wired, lastEvent>>

\* index.js 219-255: the widgets initialised by the probes of AOS, Typed,
\* PureCounter and GLightbox, and the FontFaceObserver instances of 85-87
InitWidgets ==
  { G \in {"FontFaceObserver", "AOS"} : Defined(G) }
    \cup { G \in {"Typed"} : Defined(G) /\ typedEl \notin {NoElement, NoAttr} }
    \cup { G \in {"PureCounter", "GLightbox"} : Defined(G) /\ RaisesAt # 234 }

\* index.js 258-263: the .init-swiper elements given an instance, those
\* before the first one at which 260 raises
InitSwipers ==
  IF Defined("Swiper") /\ RaisesAt # 234
  THEN { k \in DOMAIN swipers : BadSwiper = 0 \/ k < BadSwiper }
  ELSE {}

\* index.js 299-307: the top handed to window.scrollTo, the offsetTop of the
\* first element that has the id of the hash
HashScroll ==
  LET T == { s \in DOMAIN sections : hash # <<>> /\ sections[s].id = Tail(hash) }
  IN IF T = {} THEN scrollTarget
     ELSE sections[CHOOSE s \in T : \A t \in T : s <= t].offsetTop

\* Mutant of ToggleClasses: the classes are added, not toggled.
ToggleClassesAdd(classes) == classes \cup {"header-show", "bi-list", "bi-x"}

\* index.js 314-316: classList.toggle of header-show on the header and of
\* bi-list and bi-x on the toggle
ToggleClasses(classes) ==
  (classes \ {"header-show", "bi-list", "bi-x"})
    \cup ({"header-show", "bi-list", "bi-x"} \ classes)

\* index.js 313-317: a click on the header toggle.  Without the listener a
\* click changes nothing, so clicks are followed once it is added.
HeaderToggleClick ==
  /\ hasToggle
  /\ "toggle:click" \in wired
  /\ Event("toggle", <<>>)
  /\ headerClass' = ToggleClasses(headerClass)
  /\ UNCHANGED <<phase, lazyVars, scrollVars, navVars, gridVars, pageVars,
                 bootVars, console, raised, wired>>

(***************************************************************************)
(* 10, 11. The DOMContentLoaded and load handlers                          *)
(***************************************************************************)
\* index.js 204-345.  The statements before the one that raises have run,
\* those after it have not.
DOMContentLoaded ==
  /\ phase = "parsing"
  /\ phase' = "ready"
  /\ LET st == lazyLoadImages
     IN /\ img' = st.img
        /\ observed' = st.observed
        /\ srcWrites' = st.srcWrites
  /\ LET st == optimizeFontLoading(Append(console,
                  <<"log", "DOM Content Loaded: Initializing optimizations...">>))
     IN /\ fonts' = st.fonts
        /\ console' = st.console
  /\ inited' = InitWidgets
  /\ swiperInst' = InitSwipers
  /\ isoInst' = IF hasIsotope /\ RaisesAt \notin {234, 260}
                THEN [g \in DOMAIN grids |-> NewIsotope(grids[g])]
                ELSE isoInst
  /\ scrollTarget' = IF RaisesAt \notin {234, 260, 300} THEN HashScroll
                     ELSE scrollTarget
  /\ wired' = wired \cup {"body:click"}
                \cup (IF RaisesAt \notin {234, 260, 300} /\ hasToggle /\ hasHeader
                      THEN {"toggle:click"} ELSE {})
                \cup (IF RaisesAt \notin {234, 260, 300}
                      THEN {"scroll:activateNavmenuLink"} ELSE {})
  /\ navActive' = IF RaisesAt \notin {234, 260, 300}
                  THEN activateNavmenuLink(scrollY) ELSE navActive
  /\ raised' = IF RaisesAt # 0
               THEN raised \cup { <<"DOMContentLoaded", RaisesAt>> } ELSE raised
  /\ UNCHANGED <<hasIO, markup, lastInt, queue, scrollVars, sections, anchors,
                 hasIsotope, grids, filterActive, clicked, lastClick,
                 clickHandlers, pageVars, docClass, preloader, headerClass,
                 lastEvent>>

\* index.js 351-366; the browser fires load after DOMContentLoaded
WindowLoad ==
  /\ phase = "ready"
  /\ phase' = "loaded"
  /\ console' = console \o
       << <<"log", "Window Loaded: Finalizing optimizations...">>,
          <<"log", "Concept: Unused CSS removal is best handled by build tools.">> >>
  /\ wired' = wired \cup {"scroll:handleScroll"}
  /\ debounce
  /\ preloader' = IF preloader = "shown" THEN "removed" ELSE preloader
  /\ UNCHANGED <<lazyVars, scrollY, hasButton, btnActive, bodyRuns, lastRead,
                 navVars, gridVars, pageVars, inited, swiperInst, fonts,
                 scrollTarget, docClass, headerClass, raised, lastEvent>>

(***************************************************************************)
(* Initial states: the page as parsed, before any handler has run.         *)
(***************************************************************************)
InitPhase == phase = "parsing"

NoImages ==
  /\ hasIO = TRUE
  /\ markup = <<>>

SomeImages ==
  /\ hasIO \in BOOLEAN
  /\ markup \in [1..NumImages -> ImgKinds]

InitLazyState ==
  /\ img = markup
  /\ observed = {}
  /\ lastInt = [i \in Images |-> {}]
  /\ queue = <<>>
  /\ srcWrites = [i \in Images |-> <<>>]

InitScrollState ==
  /\ scrollY = 0
  /\ timeout = "none"
  /\ quiet = 0
  /\ bodyRuns = 0
  /\ firedSinceCall = FALSE
  /\ lastRead = NotRead
  /\ pendingCalls = 0
  /\ burst = 0

NoButton ==
  /\ hasButton = FALSE
  /\ btnActive = FALSE

SomeButton ==
  /\ hasButton \in BOOLEAN
  /\ btnActive \in (IF hasButton THEN BOOLEAN ELSE {FALSE})

NoNav ==
  /\ sections = <<>>
  /\ anchors = <<>>
  /\ navActive = <<>>

SomeNav ==
  /\ sections \in Layouts
  /\ anchors \in AnchorLists
  /\ navActive \in {[k \in DOMAIN anchors |-> b] : b \in BOOLEAN}

NoGrids ==
  /\ hasIsotope = TRUE
  /\ grids = <<>>

SomeGrids ==
  /\ hasIsotope \in BOOLEAN
  /\ grids \in [1..NumGrids -> GridKinds]

InitGridState ==
  /\ filterActive = [g \in DOMAIN grids |-> grids[g].active]
  /\ isoInst = [g \in DOMAIN grids |-> NoInstance]
  /\ clicked = <<>>
  /\ lastClick = [g \in DOMAIN grids |-> 0]
  /\ clickHandlers = {}

\* a page without optional widgets, toggle, header, preloader and hash
NoWidgets ==
  /\ globals = {}
  /\ typedEl = NoElement
  /\ swipers = <<>>
  /\ hash = <<>>
  /\ hasToggle = FALSE
  /\ hasHeader = FALSE
  /\ preloader = "none"

SomeWidgets ==
  /\ globals \in SUBSET OptionalGlobals
  /\ typedEl \in TypedKinds
  /\ swipers \in SwiperKinds
  /\ hash \in HashKinds
  /\ hasToggle \in BOOLEAN
  /\ hasHeader \in BOOLEAN
  /\ preloader = "shown"

\* the toggle of the markup shows the list icon; nothing has run
InitBootState ==
  /\ headerClass = IF hasToggle THEN {"bi-list"} ELSE {}
  /\ docClass = {}
  /\ inited = {}
  /\ swiperInst = {}
  /\ fonts = "none"
  /\ scrollTarget = NoScroll
  /\ console = <<>>
  /\ raised = {}
  /\ wired = {}
  /\ lastEvent = NoEvent

\* The sections and anchors of a page whose menu may hold an anchor without
\* href.
AnchorsNoHref ==
  { << <<"#", "hero">>, <<"#", "about">> >>,
    << <<"#", "hero">>, Null, <<"#", "about">> >> }

BootNav ==
  /\ sections = << [id |-> <<"hero">>,  offsetTop |-> 0,   offsetHeight |-> 300],
                   [id |-> <<"about">>, offsetTop |-> 300, offsetHeight |-> 500] >>
  /\ anchors \in AnchorsNoHref
  /\ navActive = [k \in DOMAIN anchors |-> k = Len(anchors)]

\* a page with lazy images only
InitLazy ==
  /\ InitPhase
  /\ SomeImages /\ InitLazyState
  /\ NoButton /\ InitScrollState
  /\ NoNav
  /\ NoGrids /\ InitGridState
  /\ NoWidgets /\ InitBootState

\* a page with sections, a navigation menu and, possibly, the scroll-to-top control
InitScroll ==
  /\ InitPhase
  /\ NoImages /\ InitLazyState
  /\ SomeButton /\ InitScrollState
  /\ SomeNav
  /\ NoGrids /\ InitGridState
  /\ NoWidgets /\ InitBootState

\* a page with masonry grids only
InitGrid ==
  /\ InitPhase
  /\ NoImages /\ InitLazyState
  /\ NoButton /\ InitScrollState
  /\ NoNav
  /\ SomeGrids /\ InitGridState
  /\ NoWidgets /\ InitBootState

\* the grid and filter bar of the page template
TemplateGrid ==
  [bar |-> {"portfolio-filters", "isotope-filters"}, active |-> {1},
   layout |-> "masonry", defaultFilter |-> "*", sort |-> "original-order"]

OneGrid ==
  /\ hasIsotope \in BOOLEAN
  /\ grids = << TemplateGrid >>

\* a page with any of the optional globals and elements, a menu and a grid
InitBoot ==
  /\ InitPhase
  /\ NoImages /\ InitLazyState
  /\ NoButton /\ InitScrollState
  /\ BootNav
  /\ OneGrid /\ InitGridState
  /\ SomeWidgets /\ InitBootState

\* a page with the scroll-to-top control, a menu, a header with its toggle
\* and a grid, and no optional global but Isotope
InitEvents ==
  /\ InitPhase
  /\ NoImages /\ InitLazyState
  /\ hasButton = TRUE /\ btnActive \in BOOLEAN /\ InitScrollState
  /\ BootNav
  /\ OneGrid /\ InitGridState
  /\ globals = {} /\ typedEl = NoElement /\ swipers = <<>> /\ hash = <<>>
  /\ hasToggle = TRUE /\ hasHeader = TRUE /\ preloader = "shown"
  /\ InitBootState

NextLazy ==
  \/ DOMContentLoaded
  \/ WindowLoad
  \/ \E i \in Images, b \in BOOLEAN : QueueEntry(i, b)
  \/ IntersectionCallback

NextScroll ==
  \/ DOMContentLoaded
  \/ WindowLoad
  \/ \E y \in ScrollOffsets : ScrollEvent(y)
  \/ Tick
  \/ TimerFire

NextGrid ==
  \/ DOMContentLoaded
  \/ WindowLoad
  \/ \E g \in DOMAIN grids, c \in DOMAIN FilterControls : FilterClick(g, c)

NextBoot ==
  \/ DOMContentLoaded
  \/ WindowLoad
  \/ FontsLoaded
  \/ FontsFailed
  \/ HeaderToggleClick

NextEvents ==
  \/ DOMContentLoaded
  \/ WindowLoad
  \/ \E y \in ScrollOffsets : ScrollEvent(y)
  \/ Tick
  \/ TimerFire
  \/ \E g \in DOMAIN grids, c \in DOMAIN FilterControls : FilterClick(g, c)
  \/ HeaderToggleClick

SpecLazy   == InitLazy /\ [][NextLazy]_vars
SpecScroll == InitScroll /\ [][NextScroll]_vars
SpecGrid   == InitGrid /\ [][NextGrid]_vars
SpecBoot   == InitBoot /\ [][NextBoot]_vars
SpecEvents == InitEvents /\ [][NextEvents]_vars

\* The event loop runs a timer callback that is due, time passes, and the
\* browser fires DOMContentLoaded and load.
SpecScrollFair ==
  /\ InitScroll /\ [][NextScroll]_vars
  /\ WF_vars(DOMContentLoaded) /\ WF_vars(WindowLoad)
  /\ WF_vars(Tick) /\ WF_vars(TimerFire)

(***************************************************************************)
(* The lazy image loader: claims C1 to C4, checked under SpecLazy.         *)
(***************************************************************************)
\* the step in which the browser delivers the queued entries to the callback
CallbackStep == queue # <<>> /\ queue' = <<>>

\* the delivered entries hold one that reports image i as intersecting
ReportedIntersecting(i) ==
  \E k \in DOMAIN queue : queue[k].target = i /\ queue[k].isIntersecting

\* the live source (source-set) of image i, as img.src (img.srcset) reads it
LiveSrc(i)    == Reflect(img[i].src)
LiveSrcset(i) == Reflect(img[i].srcset)

\* image i was parsed with a deferred source-set: data-srcset holds a value
HasDeferredSrcset(i) == markup[i].dataSrcset \notin {NoAttr, ""}

\* C1 (the claim as stated): whenever the callback is delivered entries, every
\* image reported as intersecting ends with its live source equal to its
\* deferred source, its live source-set equal to the deferred source-set if it
\* had one (untouched otherwise), without both markers and unobserved; an
\* image not reported as intersecting is unchanged and as observed as before.
\* An image has a deferred source-set when data-srcset holds a value (an
\* empty data-srcset is a marker without a source-set).
C1_IntersectionSwap ==
  [][CallbackStep =>
       \A i \in Images :
         IF ReportedIntersecting(i)
         THEN /\ Reflect(img'[i].src) = markup[i].dataSrc
              /\ Reflect(img'[i].srcset) =
                   (IF HasDeferredSrcset(i) THEN markup[i].dataSrcset
                                            ELSE Reflect(img[i].srcset))
              /\ img'[i].dataSrc = NoAttr
              /\ img'[i].dataSrcset = NoAttr
              /\ i \notin observed'
         ELSE /\ img'[i] = img[i]
              /\ (i \in observed') = (i \in observed)]_vars

\* C2 (the claim as stated): in every state, the live source of each image
\* has been written at most once, only with the image's original deferred
\* source, and the marker is off the image exactly when that write was made.
C2_MutatedOnce ==
  \A i \in Images :
    /\ Len(srcWrites[i]) <= 1
    /\ \A k \in DOMAIN srcWrites[i] : srcWrites[i][k] = markup[i].dataSrc
    /\ (img[i].dataSrc = NoAttr) = (Len(srcWrites[i]) = 1)

\* C3 (the claim as stated): once the load handler has run, every flagged
\* image has its live source equal to its original deferred source and has
\* lost its marker, whether or not it has entered the viewport.
C3_AllLoadedAfterLoad ==
  phase = "loaded" =>
    \A i \in Images : LiveSrc(i) = markup[i].dataSrc /\ img[i].dataSrc = NoAttr

\* C3 (amended): once the load handler has run, without intersection
\* detection every flagged image has its live source equal to its original
\* deferred source and no marker; with intersection detection an image that
\* is still observed is exactly as parsed (marker on, nothing loaded), and an
\* image no longer observed has lost both markers and the first value written
\* to its live source was its original deferred source.
C3_LoadedWhenReported ==
  phase = "loaded" =>
    \A i \in Images :
      IF ~hasIO
      THEN LiveSrc(i) = markup[i].dataSrc /\ img[i].dataSrc = NoAttr
      ELSE IF i \in observed
           THEN img[i] = markup[i] /\ srcWrites[i] = <<>>
           ELSE /\ img[i].dataSrc = NoAttr
                /\ img[i].dataSrcset = NoAttr
                /\ srcWrites[i] # <<>>
                /\ Head(srcWrites[i]) = markup[i].dataSrc

\* C3 witness: after load, with intersection detection, one image has been
\* loaded by a delivered notification and another is still waiting.
C3_Witness ==
  /\ phase = "loaded"
  /\ hasIO
  /\ queue = <<>>
  /\ \E i, j \in Images :
       /\ i \in observed /\ img[i].dataSrc # NoAttr
       /\ j \notin observed /\ LiveSrc(j) = markup[j].dataSrc

\* C4: without intersection detection nothing is observed or queued in any
\* state, and once lazyLoadImages has returned every flagged image has its
\* live source equal to its deferred source, its live source-set equal to the
\* deferred source-set when it has one, and neither deferred marker.  An
\* image has a deferred source-set when data-srcset holds a value; an empty
\* data-srcset is a marker without a source-set: it is removed and the live
\* source-set stays as parsed, as it does when the marker is missing.
C4_FallbackResolvesAll ==
  ~hasIO =>
    /\ observed = {} /\ queue = <<>>
    /\ phase # "parsing" =>
         \A i \in Images :
           /\ LiveSrc(i) = markup[i].dataSrc
           /\ LiveSrcset(i) =
                (IF HasDeferredSrcset(i) THEN markup[i].dataSrcset
                                         ELSE Reflect(markup[i].srcset))
           /\ img[i].dataSrc = NoAttr
           /\ img[i].dataSrcset = NoAttr

\* C4 witness: the fallback has run on a page with an image whose deferred
\* source-set was copied and an image whose deferred source-set is empty.
C4_Witness ==
  /\ ~hasIO
  /\ phase = "ready"
  /\ \E i, j \in Images :
       /\ HasDeferredSrcset(i) /\ LiveSrcset(i) = markup[i].dataSrcset
       /\ markup[j].dataSrcset = "" /\ img[j].dataSrcset = NoAttr

(***************************************************************************)
(* The scroll-to-top toggle: claims C5 and C6, checked under SpecScroll.   *)
(***************************************************************************)
\* C5 (the claim as stated): in every state after the load handler has run,
\* an existing scroll-to-top control carries 'active' if and only if the
\* vertical offset last recorded is greater than 100, whichever of the two is
\* taken for the recorded offset: the one last reported for the page, or the
\* one the handler body read last (nothing read yet does not exceed 100).
C5_ActiveIffRecorded ==
  (phase = "loaded" /\ hasButton) =>
    \/ (btnActive <=> scrollY > 100)
    \/ (btnActive <=> lastRead > 100)

\* C5 (amended): in every state after the debounced handler body has run at
\* least once, an existing control carries 'active' if and only if the offset
\* read by the latest run of the body is greater than 100: read as 50 or 100
\* the control is inactive, read as 150 it is active.
C5_ActiveIffLastRead ==
  (hasButton /\ lastRead # NotRead) =>
    /\ btnActive <=> lastRead > 100
    /\ lastRead \in {50, 100} => ~btnActive
    /\ lastRead = 150 => btnActive

\* C5 witness: the body has read offset 150 and set the class, and the page
\* has since been scrolled back to 50 with the class still on.
C5_Witness ==
  /\ phase = "loaded" /\ hasButton
  /\ lastRead = 150 /\ btnActive
  /\ scrollY = 50

\* the step in which the debounced handler body runs
BodyStep == bodyRuns' # bodyRuns

\* C6 (the claim as stated): the handler body runs at most once per quiet
\* interval of 100 ms after the last call, and the invocation requested by the
\* load handler is neither cancelled nor postponed: while it is pending, a
\* step either runs it or leaves it pending with no less time elapsed.
C6_LoadRunUnconditional ==
  [][/\ BodyStep => (quiet >= Delay /\ ~firedSinceCall)
     /\ (phase = "loaded" /\ bodyRuns = 0 /\ timeout = "pending") =>
          \/ (BodyStep /\ timeout' = "none")
          \/ (timeout' = "pending" /\ quiet' >= quiet)]_vars

\* C6 (amended): the handler body runs only when a timer is pending and at
\* least 100 ms have passed since handleScroll was last called, at most once
\* per call; the load handler makes one such call, which runs nothing itself
\* and starts the 100 ms, and every scroll event after load that moves the
\* page starts them again, for the invocation requested at load as for any
\* other.
C6_LoadRunDebounced ==
  [][/\ BodyStep =>
          /\ quiet >= Delay /\ ~firedSinceCall
          /\ timeout = "pending" /\ timeout' = "none"
     /\ (phase = "ready" /\ phase' = "loaded") =>
          (timeout' = "pending" /\ quiet' = 0 /\ ~BodyStep)
     /\ (phase = "loaded" /\ scrollY' # scrollY) =>
          (timeout' = "pending" /\ quiet' = 0 /\ ~BodyStep)]_vars

\* C6 witness: the invocation requested at load was superseded by a scroll
\* to 150, and the body has then run once, after the 100 ms, reading 150.
C6_Witness ==
  /\ phase = "loaded"
  /\ bodyRuns = 1 /\ firedSinceCall /\ timeout = "none"
  /\ quiet = Delay /\ lastRead = 150

(***************************************************************************)
(* The navigation highlighter: claims C7 to C9, checked under SpecScroll.  *)
(***************************************************************************)
\* section s spans position p: offsetTop <= p < offsetTop + offsetHeight
Spans(s, p) ==
  /\ sections[s].offsetTop <= p
  /\ p < sections[s].offsetTop + sections[s].offsetHeight

\* the last section in DOM order that spans p, 0 if none does
LastSpanning(p) ==
  LET S == { s \in DOMAIN sections : Spans(s, p) }
  IN IF S = {} THEN 0 ELSE CHOOSE s \in S : \A t \in S : t <= s

\* the anchors carrying 'active'
ActiveAnchors == { k \in DOMAIN anchors : navActive[k] }

\* anchor k refers to section s: its href without the first character is the
\* section's id (a section without id has the id "")
RefersTo(k, s) == s # 0 /\ Substring1(anchors[k]) = sections[s].id

ExamplePage ==
  /\ sections = << [id |-> <<"hero">>,  offsetTop |-> 0,   offsetHeight |-> 300],
                   [id |-> <<"about">>, offsetTop |-> 300, offsetHeight |-> 500],
                   [id |-> <<"contact">>, offsetTop |-> 800, offsetHeight |-> 400] >>
  /\ anchors = << <<"#", "hero">>, <<"#", "about">>, <<"#", "contact">> >>

\* a scroll event that moves the page once the listener is added, or the
\* DOMContentLoaded handler
HighlightStep ==
  \/ (phase # "parsing" /\ scrollY' # scrollY)
  \/ (phase = "parsing" /\ phase' # phase)

Matching(v) == { k \in DOMAIN GridItems : v = "*" \/ v \in GridItems[k] }

\* C10 (the claim as stated): after a click on a control of the filter bar
\* of a grid (an .isotope-layout element that has been given its Isotope
\* instance), that control is the only one of the bar with 'filter-active',
\* the grid's filter is the control's data-filter value, and the grid shows
\* exactly the items matching that value, all of them for '*'.
C10_ClickFiltersItsGrid ==
  (hasIsotope /\ clicked # <<>>) =>
    LET g == clicked[1]
        c == clicked[2]
    IN /\ filterActive[g] = {c}
       /\ isoInst[g].filter = FilterControls[c]
       /\ Visible(g) = Matching(FilterControls[c])

(***************************************************************************)
(* The capability probes: claims C11 and C12, checked under SpecBoot.      *)
(***************************************************************************)
\* the console entries above the level of console.log, in order
Reports == SelectSeq(console, LAMBDA e : e[1] # "log")

WarnNoObserver == <<"warn", "FontFaceObserver not found. Font optimization skipped.">>
ErrorFonts     == <<"error", "Error loading fonts:">>

\* the integration of global G has been skipped: nothing of it was created
Skipped(G) ==
  /\ G \notin inited
  /\ G = "FontFaceObserver" => fonts = "none" /\ "fonts-loaded" \notin docClass
  /\ G = "Swiper" => swiperInst = {}
  /\ G = "Isotope" => \A g \in DOMAIN grids : isoInst[g] = NoInstance

\* the lines at which a handler has raised
RaisedLines == { r[2] : r \in raised }

\* every absent global has its integration skipped, and no absent global
\* makes the handler raise: 234 needs Typed, 260 needs Swiper
AbsentSkipped ==
  /\ \A G \in OptionalGlobals \cup {"Isotope"} : ~Defined(G) => Skipped(G)
  /\ 234 \in RaisedLines => Defined("Typed")
  /\ 260 \in RaisedLines => Defined("Swiper")

\* C11 (the claim as stated): once the DOMContentLoaded handler has run, the
\* integration of every absent optional global has been skipped, nothing was
\* raised on its account, and nothing was reported for it: the console holds
\* no entry above the level of console.log but the error of a rejected font
\* load, and holds that one only after a rejection.
C11_AbsentIsSilent ==
  phase # "parsing" =>
    /\ AbsentSkipped
    /\ Reports = (IF fonts = "failed" THEN << ErrorFonts >> ELSE <<>>)

\* C11 (amended): once the DOMContentLoaded handler has run, the integration
\* of every absent optional global has been skipped and nothing was raised on
\* its account; for AOS, Typed, PureCounter, GLightbox, Swiper and Isotope
\* nothing is reported either, while the absence of FontFaceObserver is
\* reported with one console warning.  The entries above the level of
\* console.log are exactly that warning, when FontFaceObserver is absent, and
\* the error of a rejected font load, when it is present and a load was
\* rejected; before the handler the console is empty.
C11_OnlyFontsReport ==
  /\ phase = "parsing" => console = <<>>
  /\ phase # "parsing" =>
       /\ AbsentSkipped
       /\ Reports = (IF Defined("FontFaceObserver")
                     THEN (IF fonts = "failed" THEN << ErrorFonts >> ELSE <<>>)
                     ELSE << WarnNoObserver >>)
       /\ fonts = "failed" => Defined("FontFaceObserver")

\* C11 witness: no optional global is defined, both handlers have run to
\* their end, no widget exists, and the only report is the warning.
C11_Witness ==
  /\ globals = {} /\ ~hasIsotope
  /\ phase = "loaded"
  /\ raised = {}
  /\ inited = {} /\ swiperInst = {} /\ fonts = "none"
  /\ Reports = << WarnNoObserver >>
  /\ Len(console) = 4

\* the listeners and instances whose own prerequisites the page meets
AllWired ==
  /\ "body:click" \in wired
  /\ "scroll:activateNavmenuLink" \in wired
  /\ (hasToggle /\ hasHeader) => "toggle:click" \in wired
  /\ \A G \in {"FontFaceObserver", "AOS", "PureCounter", "GLightbox"} :
       Defined(G) => G \in inited
  /\ (Defined("Typed") /\ typedEl \notin {NoElement, NoAttr}) => "Typed" \in inited
  /\ Defined("Swiper") =>
       \A k \in DOMAIN swipers : swipers[k] \in JsonTexts => k \in swiperInst
  /\ hasIsotope => \A g \in DOMAIN grids : isoInst[g] # NoInstance /\ OwnListener(g)
  /\ \A s \in DOMAIN sections :
       (hash # <<>> /\ sections[s].id = Tail(hash)) => scrollTarget # NoScroll

\* C12 (the claim as stated): for every combination of optional globals and
\* optional elements, once the DOMContentLoaded handler has run nothing has
\* been raised, and every behaviour whose own prerequisites are present is
\* wired: the delegated click listener, the header toggle, the navigation
\* highlighter, each widget, each grid, the scroll to the hash target.
C12_NothingFatal ==
  phase # "parsing" => (raised = {} /\ AllWired)

(***************************************************************************)
(* The debounce: claim C13, checked under SpecScroll.                      *)
(***************************************************************************)
\* the step delivers a scroll event
ScrollStep == lastEvent' # lastEvent /\ lastEvent'[1] = "scroll"

\* the step calls handleScroll: a scroll event once the load handler has
\* added the listener, or the load handler itself
CallStep ==
  \/ (ScrollStep /\ phase = "loaded")
  \/ (phase = "ready" /\ phase' = "loaded")

\* the call cancels what is pending and schedules one invocation
Supersedes ==
  /\ pendingCalls' = 1 /\ timeout' = "pending"
  /\ quiet' = 0 /\ ~firedSinceCall'
  /\ ~BodyStep

\* C13 (the claim as stated): at most one delayed invocation is pending at
\* any time; every scroll event after load cancels the pending one and
\* schedules a new one; the body runs only 100 ms after the latest call and
\* once per burst; and every burst gets its invocation: when a call comes
\* 100 ms or more after the previous one, and so starts a new burst, the body
\* has run since that previous call.
C13_BurstRunsOnce ==
  /\ [](pendingCalls <= 1)
  /\ [][/\ (ScrollStep /\ phase = "loaded") => Supersedes
        /\ BodyStep => (quiet >= Delay /\ ~firedSinceCall)
        /\ (CallStep /\ burst >= 1 /\ quiet >= Delay) => firedSinceCall]_vars

\* C13 (amended): at most one delayed invocation is pending at any time, and
\* one is pending exactly while the closure's timer is active; every call of
\* handleScroll (a scroll event after load, or the load handler) cancels the
\* pending invocation and schedules a new one, running nothing itself; the
\* body runs only when 100 ms or more have passed since the latest call, so
\* never inside a burst, and at most once after it; nothing else changes the
\* class of the control.  A burst gets no invocation when the next call
\* arrives before the timer callback has run.
C13_Supersession ==
  /\ [](pendingCalls <= 1 /\ (pendingCalls = 1 <=> timeout = "pending"))
  /\ [][/\ CallStep => Supersedes
        /\ BodyStep =>
             /\ quiet >= Delay /\ ~firedSinceCall /\ firedSinceCall'
             /\ pendingCalls = 1 /\ pendingCalls' = 0
        /\ btnActive' # btnActive => BodyStep]_vars

\* C13 witness: a burst of three calls less than 100 ms apart (the load
\* handler and two scroll events, the last one to 350) has been followed by
\* the one run of the body, which read 350, and nothing is pending.
C13_Witness ==
  /\ phase = "loaded"
  /\ burst >= 3 /\ firedSinceCall
  /\ bodyRuns = 1 /\ lastRead = 350
  /\ pendingCalls = 0 /\ timeout = "none"

(***************************************************************************)
(* The filter bars as state machines: claims C14 and C15, checked under    *)
(* SpecGrid.                                                               *)
(***************************************************************************)
\* the filter the claim gives grid g: the value of the control clicked last
\* in its own bar, its initial filter if none was clicked
OwnBarFilter(g) ==
  IF lastClick[g] = 0
  THEN (IF grids[g].defaultFilter \in {NoAttr, ""} THEN "*" ELSE grids[g].defaultFilter)
  ELSE FilterControls[lastClick[g]]

\* C14 (the claim as stated): once the grids are initialised, after any
\* sequence of clicks every grid's filter is the value of the control
\* clicked last in its own filter bar, or its initial filter
\* (data-default-filter, else '*') if none was clicked, its sort key stays
\* data-sort, else 'original-order'; so a click in the bar of one grid never
\* changes the filter of another.
C14_FilterFollowsOwnBar ==
  (hasIsotope /\ phase # "parsing") =>
    \A g \in DOMAIN grids :
      /\ isoInst[g].filter = OwnBarFilter(g)
      /\ isoInst[g].sortBy =
           (IF grids[g].sort \in {NoAttr, ""} THEN "original-order" ELSE grids[g].sort)

\* C15 (the claim as stated): a click on a filter control runs at most one
\* handler that changes the 'filter-active' marks and arranges a grid, also
\* when the bar carries both 'portfolio-filters' and 'isotope-filters'.
C15_OneHandlerPerClick ==
  clicked # <<>> => Cardinality(clickHandlers) <= 1

(***************************************************************************)
(* Repeated events: claim C16, checked under SpecEvents.                   *)
(***************************************************************************)
\* the classes the script's handlers set and clear
ClassState == << btnActive, navActive, filterActive, headerClass, docClass >>

\* the step delivers the event that was delivered last, with the same input
Repeated == lastEvent' # lastEvent /\ lastEvent'[4]

\* the step is a run of the handler body that reads the offset read by the
\* run before it
RepeatedBody == BodyStep /\ lastRead # NotRead /\ lastRead' = lastRead

ToggledClasses == {"header-show", "bi-list", "bi-x"}

\* C16 (the claim as stated): delivering an event a second time with the
\* same input (scroll offset, clicked filter control, clicked header toggle)
\* leaves every class as it was after the first delivery, and so does a
\* second run of the scroll handler body at the same offset.
C16_RepeatChangesNothing ==
  [][(Repeated \/ RepeatedBody) => ClassState' = ClassState]_vars

\* C16 (amended): a scroll event at the same offset, a click on the same
\* filter control and a run of the scroll handler body at the same offset
\* leave every class as it was after the first one; a click on the header
\* toggle is not idempotent: every delivery flips each of 'header-show',
\* 'bi-list' and 'bi-x' and changes no other class, so the second delivery
\* undoes the first.
C16_IdempotentButToggle ==
  [][/\ ((Repeated /\ lastEvent'[1] # "toggle") \/ RepeatedBody) =>
          ClassState' = ClassState
     /\ (lastEvent' # lastEvent /\ lastEvent'[1] = "toggle") =>
          /\ \A c \in ToggledClasses : (c \in headerClass') <=> (c \notin headerClass)
          /\ headerClass' \ ToggledClasses = headerClass \ ToggledClasses
          /\ <<btnActive', navActive', filterActive', docClass'>> =
               <<btnActive, navActive, filterActive, docClass>>]_vars

\* C16 witness: the header toggle has been clicked twice in a row, and the
\* header and the toggle carry the classes of the markup again.
C16_Witness ==
  /\ lastEvent[1] = "toggle" /\ lastEvent[4]
  /\ headerClass = {"bi-list"}

(***************************************************************************)
(* Convergence of the debounced toggle: claim C17, checked under           *)
(* SpecScrollFair.                                                         *)
(***************************************************************************)
\* the control's class is the one the current offset calls for
Converged == btnActive <=> scrollY > Threshold

\* the runs of the body are followed up to MaxRuns: the timer set after the
\* last of them stays pending
RunsExhausted == bodyRuns = MaxRuns /\ timeout = "pending"

\* C17: if from some point on no scroll event arrives, then from some point
\* on, after load, an existing control carries 'active' exactly when the
\* current offset is greater than 100 (as long as runs are followed).  The
\* body runs only when 100 ms or more have passed since the latest call of
\* handleScroll, reads the offset of that moment and sets the class by it;
\* no other step changes the class, so while scroll events arrive less than
\* 100 ms apart the class stays as it was.
C17_Convergence ==
  /\ (<>[][~ScrollStep]_vars) =>
       <>[]((phase = "loaded" /\ hasButton) => (Converged \/ RunsExhausted))
  /\ [][BodyStep =>
          /\ quiet >= Delay
          /\ lastRead' = scrollY
          /\ hasButton => (btnActive' <=> scrollY > Threshold)]_vars
  /\ [][btnActive' # btnActive => BodyStep]_vars

\* C17 witness: after a burst of calls that ended with a scroll to 150 the
\* body has run once, 100 ms after the last of them, has read 150, and the
\* control is active.
C17_Witness ==
  /\ phase = "loaded" /\ hasButton
  /\ burst >= 2 /\ firedSinceCall /\ bodyRuns = 1
  /\ scrollY = 150 /\ lastRead = 150 /\ btnActive
  /\ timeout = "none" /\ quiet = Delay

=============================================================================
